---- MODULE Spec2Model ----
(***************************************************************************)
(* Model of snntoolbox/model_libs/keras_input_lib.py: load_ann, extract    *)
(* and set_layer_params acting on one live Keras model handle.             *)
(*                                                                         *)
(* A model is a sequence of layer objects (records).  Python's 0-based     *)
(* layer index layer_num addresses element layer_num + 1 of the sequence.  *)
(* Parameter arrays are abstracted to scalars, kept as exact rationals     *)
(* <<numerator, denominator>> so that batch-norm folding really divides.   *)
(* An optional value (Python None or a value) is <<>> or <<value>>.        *)
(***************************************************************************)
EXTENDS Integers, Sequences, FiniteSets, TLC

VARIABLES
    model,   \* the live model handle the caller holds: sequence of layers, <<>> before a load
    net,     \* return value of the last load_ann call: <<>> or <<[model, val_fn]>>
    ann,     \* return value of the last extract call: <<>> or <<description>>
    exc,     \* exception that ended the last call, "None" when it returned
    last,    \* name of the last call that finished
    ld,      \* frame of a load_ann call in progress
    rt,      \* <<>> or <<[i, first, again]>>: the reported weights of layer i were written back
    steps,   \* the steps the last load_ann call completed
    stale,   \* TRUE when the model changed since ann was extracted
    writes   \* number of set_layer_params calls so far

vars == <<model, net, ann, exc, last, ld, steps, rt, stale, writes>>

----------------------------------------------------------------------------
(* Bounds *)

MaxLayers == 4

MaxLongLayers == 11

MaxWrites == 1

----------------------------------------------------------------------------
(* Exact rational arithmetic for the parameter values *)

Abs(n) == IF n < 0 THEN -n ELSE n

RECURSIVE GCD(_, _)
GCD(a, b) == IF b = 0 THEN a ELSE GCD(b, a % b)

RNorm(n, d) ==
    LET g == GCD(Abs(n), Abs(d))
        s == IF d < 0 THEN -1 ELSE 1
    IN  <<(s * n) \div g, (s * d) \div g>>

R(n) == <<n, 1>>

RAdd(x, y) == RNorm(x[1] * y[2] + y[1] * x[2], x[2] * y[2])

RSub(x, y) == RNorm(x[1] * y[2] - y[1] * x[2], x[2] * y[2])

RMul(x, y) == RNorm(x[1] * y[1], x[2] * y[2])

RDiv(x, y) == RNorm(x[1] * y[2], x[2] * y[1])

----------------------------------------------------------------------------
(* Python string formatting *)

Digit == <<"0", "1", "2", "3", "4", "5", "6", "7", "8", "9">>

\* str(n) for a non-negative int
RECURSIVE str(_)
str(n) == IF n < 10 THEN Digit[n + 1] ELSE str(n \div 10) \o Digit[(n % 10) + 1]

----------------------------------------------------------------------------
(* The Keras layer objects extract reads: class name, shapes, parameters *)

None == "None"

\* parameters stored in the saved weight file, per layer
DenseSaved(n) == IF n = 128 THEN <<R(1), R(0)>> ELSE <<R(2), R(3)>>

ConvSaved == <<R(1), R(1)>>

\* gamma, beta, running mean, running std
BNSaved == <<R(3), R(1), R(1), R(1)>>

Dense(in, n) ==
    [class |-> "Dense", input_shape |-> in, output_shape |-> <<None, n>>,
     weights |-> DenseSaved(n)]

Convolution2D(in) ==
    [class |-> "Convolution2D", input_shape |-> in,
     output_shape |-> <<None, 16, in[3], in[4]>>, weights |-> ConvSaved,
     nb_filter |-> 16, nb_col |-> 3, nb_row |-> 3, border_mode |-> "same"]

Pooling2D(cls, in) ==
    [class |-> cls, input_shape |-> in,
     output_shape |-> <<None, in[2], in[3] \div 2, in[4] \div 2>>, weights |-> <<>>,
     pool_size |-> <<2, 2>>, strides |-> <<2, 2>>, border_mode |-> "valid"]

Activation(in) ==
    [class |-> "Activation", input_shape |-> in, output_shape |-> in, weights |-> <<>>]

BatchNormalization(in) ==
    [class |-> "BatchNormalization", input_shape |-> in, output_shape |-> in,
     weights |-> BNSaved, epsilon |-> R(1)]

Flatten(in) ==
    [class |-> "Flatten", input_shape |-> in,
     output_shape |-> <<None, in[2] * in[3] * in[4]>>, weights |-> <<>>]

\* the layers Keras accepts on top of an output of shape in
NextLayers(in) ==
    IF Len(in) = 2
    THEN {Dense(in, 128), Dense(in, 10), Activation(in), BatchNormalization(in)}
    ELSE {Convolution2D(in), Activation(in), BatchNormalization(in), Flatten(in)}
         \cup (IF in[3] >= 2 /\ in[4] >= 2
               THEN {Pooling2D("MaxPooling2D", in), Pooling2D("AveragePooling2D", in)}
               ELSE {})

InputShapes == {<<None, 784>>, <<None, 1, 8, 8>>}

RECURSIVE ModelsFrom(_, _)
ModelsFrom(in, n) ==
    IF n = 0 THEN {<<>>}
    ELSE UNION {{<<l>> \o rest : rest \in ModelsFrom(l.output_shape, n - 1)} :
                l \in NextLayers(in)}

\* the networks a model file or construction script may describe
Models == UNION {ModelsFrom(in, n) : in \in InputShapes, n \in 1..MaxLayers}

\* deep multi-layer perceptrons: Dense / Activation blocks
RECURSIVE MLPsFrom(_, _)
MLPsFrom(in, n) ==
    IF n = 0 THEN {<<>>}
    ELSE IF n = 1 THEN {<<Dense(in, k)>> : k \in {128, 10}}
    ELSE UNION {{<<Dense(in, k), Activation(<<None, k>>)>> \o rest :
                 rest \in MLPsFrom(<<None, k>>, n - 2)} : k \in {128, 10}}

LongModels == UNION {MLPsFrom(<<None, 784>>, n) : n \in (MaxLongLayers - 1)..MaxLongLayers}

\* what the files and scripts given to load_ann may hold
Catalogue == Models \cup LongModels

----------------------------------------------------------------------------
(* Collaborators imported from the toolbox *)

\* snntoolbox.config.bn_layers: layer types a batch-normalization layer may follow
bn_layers == {"Dense", "Convolution2D"}

\* snntoolbox.model_libs.common.absorb_bn: the affine map equal to (w, b)
\* followed by batch normalization with the given parameters.  The arguments
\* are, in the caller's order, W, b, gamma, beta, mean, std, epsilon; the
\* normalization divides by std + epsilon.
absorb_bn(w, b, gamma, beta, mean, std, epsilon) ==
    <<RDiv(RMul(w, gamma), RAdd(std, epsilon)),
      RAdd(beta, RDiv(RMul(RSub(b, mean), gamma), RAdd(std, epsilon)))>>

----------------------------------------------------------------------------
(* extract *)

\* d.update(e) on Python dicts
update(d, e) == e @@ d

\* variant: formats dimension 0, the batch dimension
shape_string_from_0(output_shape) ==
    IF Len(output_shape) = 2
    THEN "_" \o output_shape[1]
    ELSE "_" \o output_shape[1] \o "x" \o str(output_shape[2])
             \o "x" \o str(output_shape[3])

shape_string(output_shape) ==
    IF Len(output_shape) = 2
    THEN "_" \o str(output_shape[2])
    ELSE "_" \o str(output_shape[2]) \o "x" \o str(output_shape[3])
             \o "x" \o str(output_shape[4])

\* variant: no zero padding
num_str_unpadded(layer_num) == str(layer_num)

num_str(layer_num) ==
    IF layer_num > 9 THEN str(layer_num) ELSE "0" \o str(layer_num)

\* variant: the index is left out of the label
label_without_index(layer_num, layer_type, output_shape) ==
    layer_type \o shape_string(output_shape)

label_of(layer_num, layer_type, output_shape) ==
    num_str(layer_num) \o layer_type \o shape_string(output_shape)

\* <<>> when there is no next layer, else <<next layer>>
next_layer(m, layer_num) ==
    IF layer_num + 1 < Len(m) THEN <<m[layer_num + 2]>> ELSE <<>>

next_layer_name(m, layer_num) ==
    IF next_layer(m, layer_num) # <<>> THEN next_layer(m, layer_num)[1].class ELSE None

\* the condition under which extract raises NotImplementedError
bn_misplaced(m, layer_num) ==
    /\ next_layer_name(m, layer_num) = "BatchNormalization"
    /\ m[layer_num + 1].class \notin bn_layers

\* variant: the layer's own parameters, never folded
wb_raw(m, layer_num) == m[layer_num + 1].weights

\* wb as stored under 'weights'
wb_of(m, layer_num) ==
    LET wb      == m[layer_num + 1].weights
        weights == next_layer(m, layer_num)[1].weights
    IN  IF next_layer_name(m, layer_num) = "BatchNormalization"
        THEN absorb_bn(wb[1], wb[2], weights[1], weights[2], weights[3], weights[4],
                       next_layer(m, layer_num)[1].epsilon)
        ELSE wb

get_activ_fn_for_layer(m, i) ==
    [fn |-> "theano.function", inputs |-> 0, learning_phase |-> 0, outputs |-> i]

with_weights(attributes, m, layer_num) ==
    IF attributes.layer_type \in {"Dense", "Convolution2D"}
    THEN update(attributes, [weights |-> wb_of(m, layer_num)])
    ELSE attributes

with_geometry(attributes, layer) ==
    IF attributes.layer_type = "Convolution2D"
    THEN update(attributes, [input_shape |-> layer.input_shape,
                             nb_filter |-> layer.nb_filter,
                             nb_col |-> layer.nb_col,
                             nb_row |-> layer.nb_row,
                             border_mode |-> layer.border_mode])
    ELSE IF attributes.layer_type \in {"MaxPooling2D", "AveragePooling2D"}
    THEN update(attributes, [input_shape |-> layer.input_shape,
                             pool_size |-> layer.pool_size,
                             strides |-> layer.strides,
                             border_mode |-> layer.border_mode])
    ELSE attributes

with_activ(attributes, m, layer_num) ==
    IF attributes.layer_type \in {"Activation", "AveragePooling2D", "MaxPooling2D"}
    THEN update(attributes, [get_activ |-> get_activ_fn_for_layer(m, layer_num)])
    ELSE attributes

\* the dictionary appended to layers by one iteration of the loop
attributes_of(m, layer_num) ==
    LET layer == m[layer_num + 1]
        base  == [layer_num |-> layer_num,
                  layer_type |-> layer.class,
                  output_shape |-> layer.output_shape]
        lab   == update(base, [label |-> label_of(layer_num, base.layer_type,
                                                  base.output_shape)])
    IN  with_activ(with_geometry(with_weights(lab, m, layer_num), layer), m, layer_num)

\* outcome of a call: the exception raised, or the value returned
Raise(e) == [exc |-> e, ret |-> <<>>]

Return(v) == [exc |-> "None", ret |-> <<v>>]

\* variant: the loop stops at the misplaced layer and the lists built so far
\* are returned
return_partial(layers, labels, layer_idx_map) ==
    Return([input_shape |-> <<>>, layers |-> layers, labels |-> labels,
            layer_idx_map |-> layer_idx_map])

\* raise NotImplementedError, leaving the lists built so far behind
raise_misplaced(layers, labels, layer_idx_map) == Raise("NotImplementedError")

\* variant: one-based indices
append_idx_one_based(layer_idx_map, layer_num) == Append(layer_idx_map, layer_num + 1)

\* layer_idx_map.append(layer_num)
append_idx(layer_idx_map, layer_num) == Append(layer_idx_map, layer_num)

RECURSIVE extract_loop(_, _, _, _, _)
extract_loop(m, layer_num, layers, labels, layer_idx_map) ==
    IF layer_num >= Len(m)
    THEN Return([input_shape |-> m[1].input_shape, layers |-> layers,
                 labels |-> labels, layer_idx_map |-> layer_idx_map])
    ELSE LET attributes == attributes_of(m, layer_num)
             labels1    == Append(labels, attributes.label)
         IN  IF bn_misplaced(m, layer_num)
             THEN raise_misplaced(layers, labels1, layer_idx_map)
             ELSE extract_loop(m, layer_num + 1, Append(layers, attributes), labels1,
                               append_idx(layer_idx_map, layer_num))

\* variant: batch-normalization layers are left out of the result
NotBN(attributes) == attributes.layer_type # "BatchNormalization"

extract_dropping_bn(m) ==
    LET r == extract_loop(m, 0, <<>>, <<>>, <<>>)
    IN  IF r.exc # "None" THEN r
        ELSE LET kept == SelectSeq(r.ret[1].layers, NotBN)
             IN  Return([r.ret[1] EXCEPT
                            !.layers = kept,
                            !.labels = [k \in 1..Len(kept) |-> kept[k].label],
                            !.layer_idx_map = [k \in 1..Len(kept) |-> kept[k].layer_num]])

extract(m) == extract_loop(m, 0, <<>>, <<>>, <<>>)

----------------------------------------------------------------------------
(* set_layer_params *)

\* keras layer.set_weights: the parameter list must match the layer's own
set_weights(layer, params) ==
    IF Len(params) # Len(layer.weights)
    THEN Raise("ValueError")
    ELSE Return([layer EXCEPT !.weights = params])

\* variant: model.layers[i - 1]
set_layer_params_prev(m, params, i) ==
    LET j == IF i = 0 THEN Len(m) ELSE i
        r == set_weights(m[j], params)
    IN  IF r.exc # "None" THEN [exc |-> r.exc, model |-> m]
        ELSE [exc |-> "None", model |-> [m EXCEPT ![j] = r.ret[1]]]

set_layer_params(m, params, i) ==
    LET r == set_weights(m[i + 1], params)
    IN  IF r.exc # "None" THEN [exc |-> r.exc, model |-> m]
        ELSE [exc |-> "None", model |-> [m EXCEPT ![i + 1] = r.ret[1]]]

\* parameter lists a caller may pass that were not read from a description
FreshParams == {<<R(5), R(7)>>, <<R(1), R(0), R(0), R(2)>>}

----------------------------------------------------------------------------
(* load_ann *)

Idle == [pc |-> "idle", dataset |-> "", m |-> <<>>]

\* parameters of a layer right after construction, before load_weights
initial_weights(layer) ==
    IF Len(layer.weights) = 2 THEN <<R(0), R(0)>>
    ELSE IF Len(layer.weights) = 4 THEN <<R(1), R(0), R(0), R(1)>>
    ELSE <<>>

\* the model as built from the architecture alone
built(f) == [k \in 1..Len(f) |-> [f[k] EXCEPT !.weights = initial_weights(f[k])]]

saved_weights(layer) ==
    IF layer.class = "Dense" THEN DenseSaved(layer.output_shape[2])
    ELSE IF layer.class = "Convolution2D" THEN ConvSaved
    ELSE IF layer.class = "BatchNormalization" THEN BNSaved
    ELSE <<>>

\* model.load_weights on success
load_weights(m) == [k \in 1..Len(m) |-> [m[k] EXCEPT !.weights = saved_weights(m[k])]]

\* failures of building the model, by source
BuildFailures(dataset) ==
    IF dataset = "caltech101" THEN {"ImportError", "AttributeError"}
    ELSE {"IOError", "ValueError"}

LoadWeightsFailures == {"IOError", "ValueError"}

CompileFailures == {"RuntimeError"}

\* load_ann returns {'model': model, 'val_fn': model.evaluate}; both entries
\* refer to the live handle, whose layers are m
load_returns(m) ==
    [net |-> <<[model |-> "model", val_fn |-> "model.evaluate"]>>, exc |-> "None",
     model |-> m]

\* variant: the failure is swallowed and the model so far is handed out
load_fails_silently(e, m) ==
    [net |-> <<[model |-> "model", val_fn |-> "model.evaluate"]>>, exc |-> "None",
     model |-> m]

\* a step of load_ann raised e with the model so far being m: nothing catches
\* it, the caller gets no record and no handle
load_fails(e, m) == [net |-> <<>>, exc |-> e, model |-> <<>>]

----------------------------------------------------------------------------
(* State machine: one pipeline run loads a network, then extracts it and   *)
(* writes parameters back, one blocking call at a time.                    *)

Init ==
    /\ model = <<>>
    /\ net = <<>>
    /\ ann = <<>>
    /\ exc = "None"
    /\ last = "none"
    /\ ld = Idle
    /\ steps = <<>>
    /\ rt = <<>>
    /\ stale = FALSE
    /\ writes = 0

\* the call load_ann(filename, path) with settings['dataset'] = dataset
LoadCall ==
    /\ ld.pc = "idle"
    /\ model = <<>>
    /\ \E dataset \in {"caltech101", "mnist"} :
           ld' = [pc |-> "build", dataset |-> dataset, m |-> <<>>]
    /\ steps' = <<>>
    /\ UNCHANGED <<model, net, ann, exc, last, rt, stale, writes>>

\* the frame of the call is left with an exception
LoadAbort(e) ==
    LET r == load_fails(e, ld.m)
    IN  /\ net' = r.net
        /\ exc' = r.exc
        /\ model' = r.model
        /\ last' = "load_ann"
        /\ ld' = [Idle EXCEPT !.dataset = ld.dataset]
        /\ UNCHANGED <<ann, steps, rt, stale, writes>>

LoadStep(step, pc, m) ==
    /\ ld' = [ld EXCEPT !.pc = pc, !.m = m]
    /\ steps' = Append(steps, step)
    /\ UNCHANGED <<model, net, ann, exc, last, rt, stale, writes>>

\* model_from_py(filename)['model'] or models.model_from_json(open(...).read())
LoadBuild(catalogue) ==
    /\ ld.pc = "build"
    /\ \/ \E f \in catalogue : LoadStep("build", "load_weights", built(f))
       \/ \E e \in BuildFailures(ld.dataset) : LoadAbort(e)

\* model.load_weights(...)
LoadWeights ==
    /\ ld.pc = "load_weights"
    /\ \/ LoadStep("load_weights", "compile", load_weights(ld.m))
       \/ \E e \in LoadWeightsFailures : LoadAbort(e)

\* model.compile(...)
LoadCompile ==
    /\ ld.pc = "compile"
    /\ \/ LoadStep("compile", "return", ld.m)
       \/ \E e \in CompileFailures : LoadAbort(e)

LoadReturn ==
    /\ ld.pc = "return"
    /\ LET r == load_returns(ld.m)
       IN  /\ net' = r.net
           /\ exc' = r.exc
           /\ model' = r.model
    /\ last' = "load_ann"
    /\ ld' = Idle
    /\ stale' = TRUE
    /\ UNCHANGED <<ann, steps, rt, writes>>

\* variant: the folded parameters are stored into the layers they were read from
after_extract_in_place(m) ==
    [k \in 1..Len(m) |->
        IF m[k].class \in {"Dense", "Convolution2D"}
        THEN [m[k] EXCEPT !.weights = wb_of(m, k - 1)]
        ELSE m[k]]

\* the model after extract(m) ran: get_weights hands out copies and absorb_bn
\* builds new arrays, so no statement of extract writes to the model
after_extract(m) == m

Extract ==
    /\ ld.pc = "idle"
    /\ model # <<>>
    /\ LET r == extract(model)
       IN  /\ ann' = r.ret
           /\ exc' = r.exc
    /\ model' = after_extract(model)
    /\ last' = "extract"
    /\ stale' = FALSE
    /\ rt' = IF rt # <<>> THEN <<[rt[1] EXCEPT !.again = TRUE]>> ELSE rt
    /\ UNCHANGED <<net, ld, steps, writes>>

SetCall(params, i) ==
    LET r == set_layer_params(model, params, i)
    IN  /\ model' = r.model
        /\ exc' = r.exc
        /\ last' = "set_layer_params"
        /\ stale' = TRUE
        /\ writes' = writes + 1
        /\ UNCHANGED <<net, ann, ld, steps>>

\* set_layer_params(model, weights, i) with the weights extract reported for layer i
WriteBack ==
    /\ ld.pc = "idle"
    /\ model # <<>>
    /\ writes < MaxWrites
    /\ ann # <<>>
    /\ ~stale
    /\ \E k \in 1..Len(ann[1].layers) :
           /\ "weights" \in DOMAIN ann[1].layers[k]
           /\ SetCall(ann[1].layers[k].weights, ann[1].layers[k].layer_num)
           /\ rt' = <<[i |-> ann[1].layers[k].layer_num, first |-> ann[1],
                       again |-> FALSE]>>

\* set_layer_params(model, params, i) with other parameters
SetFresh ==
    /\ ld.pc = "idle"
    /\ model # <<>>
    /\ writes < MaxWrites
    /\ \E i \in 0..(Len(model) - 1), params \in FreshParams : SetCall(params, i)
    /\ rt' = <<>>

Next ==
    \/ LoadCall
    \/ LoadBuild(Catalogue)
    \/ LoadWeights
    \/ LoadCompile
    \/ LoadReturn
    \/ Extract
    \/ WriteBack
    \/ SetFresh

Spec == Init /\ [][Next]_vars

----------------------------------------------------------------------------
(* Properties.  In a state with last = "extract" the variable model is the *)
(* model the call was made on, and ann is what the call returned.          *)

Extracted == last = "extract" /\ ann # <<>>

IsBN(m, k) == m[k].class = "BatchNormalization"

\* batch-normalization layers whose parameters were folded into the layer before
Absorbed(m) ==
    {k \in 2..Len(m) : IsBN(m, k) /\ m[k - 1].class \in {"Dense", "Convolution2D"}}

\* C1 as stated: no record has layer_type BatchNormalization, and the number
\* of records is the number of layers minus the absorbed batch-normalization
\* layers.
C1_NoBatchNormRecord ==
    Extracted =>
        /\ \A k \in 1..Len(ann[1].layers) :
               ann[1].layers[k].layer_type # "BatchNormalization"
        /\ Len(ann[1].layers) = Len(model) - Cardinality(Absorbed(model))

\* C1 amended: extract emits exactly one record per layer of the model, in
\* order, batch-normalization layers included: record k has the type of layer
\* k, so an absorbed batch-normalization layer still has its own record.
C1_OneRecordPerLayer ==
    Extracted =>
        /\ Len(ann[1].layers) = Len(model)
        /\ \A k \in 1..Len(ann[1].layers) :
               ann[1].layers[k].layer_type = model[k].class

C1_Witness ==
    /\ Extracted
    /\ Absorbed(model) # {}
    /\ \E k \in 1..Len(ann[1].layers) :
           ann[1].layers[k].layer_type = "BatchNormalization"

\* some layer outside the allow-list is immediately followed by batch normalization
HasMisplacedBN(m) ==
    \E k \in 1..(Len(m) - 1) : m[k].class \notin bn_layers /\ IsBN(m, k + 1)

\* C2: on a model where a layer outside bn_layers is immediately followed by
\* a BatchNormalization layer, extract raises NotImplementedError and returns
\* no description, neither complete nor partial.
C2_MisplacedBNRaises ==
    (last = "extract" /\ HasMisplacedBN(model)) =>
        (exc = "NotImplementedError" /\ ann = <<>>)

C2_Witness ==
    /\ last = "extract"
    /\ Len(model) >= 3
    /\ model[1].class = "Dense"
    /\ model[2].class = "Activation"
    /\ IsBN(model, 3)
    /\ exc = "NotImplementedError"

\* the parameters the claim expects under 'weights' for layer k of m
ExpectedWeights(m, k) ==
    IF k < Len(m) /\ IsBN(m, k + 1)
    THEN absorb_bn(m[k].weights[1], m[k].weights[2],
                   m[k + 1].weights[1], m[k + 1].weights[2],
                   m[k + 1].weights[3], m[k + 1].weights[4], m[k + 1].epsilon)
    ELSE m[k].weights

\* C3: a record has 'weights' iff its type is Dense or Convolution2D; the
\* value is absorb_bn of the layer's (W, b) with the next layer's parameters
\* and epsilon when the next layer is BatchNormalization, and the layer's own
\* get_weights() otherwise, the last layer included.
C3_WeightsField ==
    Extracted =>
        \A k \in 1..Len(ann[1].layers) :
            LET rec == ann[1].layers[k]
                n   == rec.layer_num + 1
            IN  /\ ("weights" \in DOMAIN rec) <=>
                       (rec.layer_type \in {"Dense", "Convolution2D"})
                /\ ("weights" \in DOMAIN rec) =>
                       rec.weights = ExpectedWeights(model, n)

C3_Witness ==
    /\ Extracted
    /\ Len(model) >= 3
    /\ model[1].class = "Convolution2D" /\ IsBN(model, 2)
    /\ ann[1].layers[1].weights # model[1].weights
    /\ model[Len(model)].class = "Dense"
    /\ ann[1].layers[Len(model)].weights = model[Len(model)].weights

\* the reported weights of layer rt[1].i were written back and extract ran again
RoundTripDone == rt # <<>> /\ rt[1].again

\* C4 as stated: writing back the weights extract reported for any
\* weight-carrying layer i and extracting again gives the first description,
\* also when layer i is immediately followed by BatchNormalization.
C4_RoundTrip ==
    RoundTripDone => ann = <<rt[1].first>>

\* C4 amended: the second description equals the first when layer i is not
\* immediately followed by a BatchNormalization layer; when it is, the second
\* description differs from the first exactly in record i's 'weights', which
\* are the reported (already folded) weights folded with the batch-normalization
\* parameters once more.
C4_RoundTripUnlessFolded ==
    RoundTripDone =>
        LET n     == rt[1].i + 1
            first == rt[1].first
            w     == first.layers[n].weights
            bn    == model[n + 1]
        IN  IF n < Len(model) /\ IsBN(model, n + 1)
            THEN ann = <<[first EXCEPT !.layers[n].weights =
                             absorb_bn(w[1], w[2], bn.weights[1], bn.weights[2],
                                       bn.weights[3], bn.weights[4], bn.epsilon)]>>
            ELSE ann = <<first>>

C4_Witness ==
    /\ RoundTripDone
    /\ last = "extract"
    /\ rt[1].i + 1 < Len(model)
    /\ ~IsBN(model, rt[1].i + 2)
    /\ \E k \in 1..Len(model) : IsBN(model, k)
    /\ ann = <<rt[1].first>>

Classes(m) == [k \in 1..Len(m) |-> m[k].class]

OutputShapes(m) == [k \in 1..Len(m) |-> m[k].output_shape]

\* the model of the scenario: Dense 128, BatchNormalization, Activation, Dense 10
IsScenarioModel(m) ==
    /\ Classes(m) = <<"Dense", "BatchNormalization", "Activation", "Dense">>
    /\ OutputShapes(m) = <<<<None, 128>>, <<None, 128>>, <<None, 128>>, <<None, 10>>>>

\* C5 as stated: the scenario model gives exactly 3 records labelled
\* 00Dense_128, 01Activation_128, 02Dense_10, the first with folded weights.
C5_ThreeRecords ==
    (last = "extract" /\ IsScenarioModel(model)) =>
        /\ ann # <<>>
        /\ Len(ann[1].layers) = 3
        /\ ann[1].labels = <<"00Dense_128", "01Activation_128", "02Dense_10">>
        /\ ann[1].layers[1].weights = ExpectedWeights(model, 1)

\* C5 amended: the scenario model gives exactly 4 records labelled
\* 00Dense_128, 01BatchNormalization_128, 02Activation_128, 03Dense_10, and
\* the first record's 'weights' are the batch-norm-folded parameters.
C5_FourRecords ==
    (last = "extract" /\ IsScenarioModel(model)) =>
        /\ ann # <<>>
        /\ Len(ann[1].layers) = 4
        /\ ann[1].labels = <<"00Dense_128", "01BatchNormalization_128",
                             "02Activation_128", "03Dense_10">>
        /\ [k \in 1..4 |-> ann[1].layers[k].label] = ann[1].labels
        /\ ann[1].layers[1].weights = ExpectedWeights(model, 1)

C5_Witness ==
    /\ last = "extract"
    /\ IsScenarioModel(model)
    /\ ann # <<>>
    /\ ann[1].layers[1].weights = <<<<3, 2>>, <<-1, 2>>>>

\* C6: in a description extract returned, the labels of the records are
\* pairwise distinct, and so are the entries of 'labels'.
C6_LabelsDistinct ==
    Extracted =>
        \A j, k \in 1..Len(ann[1].layers) :
            j # k => /\ ann[1].layers[j].label # ann[1].layers[k].label
                     /\ ann[1].labels[j] # ann[1].labels[k]

C6_Witness ==
    /\ Extracted
    /\ Len(ann[1].layers) > 10
    /\ \E j, k \in 1..Len(ann[1].layers) :
           /\ j < 10 /\ k > 10
           /\ ann[1].layers[j].layer_type = ann[1].layers[k].layer_type
           /\ ann[1].layers[j].output_shape = ann[1].layers[k].output_shape

\* the index as two decimal digits, for indices below 100
TwoDigits(n) == Digit[(n \div 10) + 1] \o Digit[(n % 10) + 1]

\* the shape suffix the claim gives for rank 2 and rank 4
Suffix(shape) ==
    IF Len(shape) = 2 THEN "_" \o str(shape[2])
    ELSE "_" \o str(shape[2]) \o "x" \o str(shape[3]) \o "x" \o str(shape[4])

\* C7: the label of layer k is the two-digit zero-padded index, the layer
\* type name and the shape suffix: _N for rank 2, _CxHxW for rank 4; an
\* output_shape (None,16,8,8) gives the suffix _16x8x8.
C7_LabelFormat ==
    Extracted =>
        \A k \in 1..Len(ann[1].layers) :
            LET rec == ann[1].layers[k]
            IN  /\ rec.label = TwoDigits(k - 1) \o model[k].class
                                   \o Suffix(model[k].output_shape)
                /\ model[k].output_shape = <<None, 16, 8, 8>> =>
                       rec.label = TwoDigits(k - 1) \o model[k].class \o "_16x8x8"
                /\ model[k].output_shape = <<None, 128>> =>
                       rec.label = TwoDigits(k - 1) \o model[k].class \o "_128"

C7_Witness ==
    /\ Extracted
    /\ Len(ann[1].layers) = 11
    /\ ann[1].layers[11].label = "10Dense_128"
    /\ ann[1].layers[10].label = "09Activation_10"

\* C8: 'layers', 'labels' and 'layer_idx_map' have the same length, and at
\* every position k (from 0) layers[k].layer_num = k, layer_idx_map[k] = k and
\* labels[k] = layers[k].label; layer_num increases strictly along 'layers'.
C8_Aligned ==
    Extracted =>
        /\ Len(ann[1].labels) = Len(ann[1].layers)
        /\ Len(ann[1].layer_idx_map) = Len(ann[1].layers)
        /\ \A k \in 1..Len(ann[1].layers) :
               /\ ann[1].layers[k].layer_num = k - 1
               /\ ann[1].layer_idx_map[k] = k - 1
               /\ ann[1].labels[k] = ann[1].layers[k].label
        /\ \A k \in 1..(Len(ann[1].layers) - 1) :
               ann[1].layers[k].layer_num < ann[1].layers[k + 1].layer_num

C8_Witness ==
    /\ Extracted
    /\ Len(ann[1].layers) = 4
    /\ ann[1].layer_idx_map = <<0, 1, 2, 3>>
    /\ \E k \in 1..4 : ann[1].layers[k].layer_type = "BatchNormalization"

\* C9: extract leaves the model as it was, whether it returns or raises; the
\* model of a loaded network changes only in a set_layer_params call, and
\* then only in the parameters of layer i.
C9_Frame ==
    [][/\ (model # <<>> /\ model' # model) =>
              /\ last' = "set_layer_params"
              /\ \E k \in 1..Len(model) :
                     model' = [model EXCEPT ![k].weights = model'[k].weights]
       /\ (last' = "set_layer_params" /\ writes' # writes /\ rt' # <<>>) =>
              LET n == rt'[1].i + 1
              IN  model' = [model EXCEPT
                               ![n].weights = rt'[1].first.layers[n].weights]
      ]_vars

C9_Witness ==
    /\ RoundTripDone
    /\ last = "extract"
    /\ rt[1].i + 1 < Len(model)
    /\ IsBN(model, rt[1].i + 2)
    /\ model[rt[1].i + 1].weights = rt[1].first.layers[rt[1].i + 1].weights
    /\ ann # <<rt[1].first>>

\* the failures the step after the completed ones can raise
StepFailures(done, dataset) ==
    IF done = <<>> THEN BuildFailures(dataset)
    ELSE IF done = <<"build">> THEN LoadWeightsFailures
    ELSE CompileFailures

\* C10: load_ann returns a record only after building the model, loading the
\* weights and compiling all succeeded; when a step fails, its failure reaches
\* the caller as raised and no record is returned.
C10_NoPartialLoad ==
    (last = "load_ann" /\ ld.pc = "idle") =>
        IF exc = "None"
        THEN /\ net = <<[model |-> "model", val_fn |-> "model.evaluate"]>>
             /\ steps = <<"build", "load_weights", "compile">>
             /\ model \in Catalogue
        ELSE /\ net = <<>>
             /\ model = <<>>
             /\ Len(steps) < 3
             /\ exc \in StepFailures(steps, ld.dataset)

C10_Witness ==
    /\ last = "load_ann"
    /\ ld.pc = "idle"
    /\ steps = <<"build">>
    /\ exc = "ValueError"
    /\ net = <<>>

====
